---- MODULE Spec2Model ----
(***************************************************************************)
(* rs-life: John Conway's Game of Life on a toroidal grid.                 *)
(*                                                                         *)
(*   lib.rs   Cell, Grid (random, next, neighbours, Display); Grid::next   *)
(*            maps the rows with rayon's par_iter, one task per row.       *)
(*   main.rs  the terminal program: the same automaton over               *)
(*            Vec<Vec<bool>>, evaluated sequentially (grid_update).        *)
(*                                                                         *)
(* Coordinates x, y are 0-based as in the source; TLA+ sequences are       *)
(* 1-based, so cell (x, y) of a grid c is c[y + 1][x + 1].                 *)
(***************************************************************************)
EXTENDS Integers, Sequences, FiniteSets, TLC

\* ------------------------------------------------------------------------
\* Bounds of the model
\* ------------------------------------------------------------------------
MaxW == 3
MaxH == 3
\* largest number of cells of a grid
MaxCells == 9
\* largest number of cells of a hand-built (possibly ragged) grid
MaxBuiltCells == 5
\* usize is one machine word; the model keeps a narrower word, wider than
\* every length and index that occurs
UsizeBits == 12

UsizeModulus == 2 ^ UsizeBits

\* the values the random source may return for one draw of a u32
DrawVals == {0, 1, 2}

\* the transition rules handed to Grid::next: Cell::next and the two rules
\* of the unit tests
Rules == {"life", "invert", "eight"}

VARIABLES
    cells,           \* lib.rs Grid.cells: the current grid, rows of Cells
    pc,              \* where the driver of the library is
    req,             \* the width and height handed to Grid::random
    draws,           \* number of values Grid::random took from the source
    cell_func,       \* the rule handed to the running Grid::next
    rows,            \* per row task: the cells it has produced so far
    counts,          \* per row task: the neighbour counts it has computed
    slots,           \* the vector under collection: one slot per row
    next_grid,       \* the Grid that Grid::next returned
    panic,           \* the panic that ended Grid::next, or "none"
    text,            \* the String that Display produced
    grid,            \* main.rs: the current grid, rows of bools
    m_pc,            \* main.rs: where grid_update is
    m_out,           \* main.rs grid_update: rows collected so far
    m_row,           \* main.rs grid_update_row: cells collected so far
    m_counts,        \* main.rs: neighbour counts computed for m_row
    ahead            \* the library has computed a generation main.rs has not

vars == <<cells, pc, req, draws, cell_func, rows, counts,
          slots, next_grid, panic, text, grid, m_pc, m_out, m_row,
          m_counts, ahead>>

lib_vars == <<cells, pc, req, draws, cell_func, rows, counts, slots,
              next_grid, panic, text>>

main_vars == <<grid, m_pc, m_out, m_row, m_counts>>

\* ------------------------------------------------------------------------
\* Machine arithmetic
\* ------------------------------------------------------------------------

\* `as usize` of an isize: the two's complement bit pattern
AsUsize(v) == v % UsizeModulus

\* usize subtraction as an unchecked build computes it
WrappingSub(a, b) == (a - b) % UsizeModulus

\* ------------------------------------------------------------------------
\* lib.rs: Cell
\* ------------------------------------------------------------------------

Cell(b) == [alive |-> b]

EMPTY_CELL == " "
LIVE_CELL == "O"

\* Cell::next with the survival test dropped
Cell_next_b2(self, neighbours) ==
    Cell((neighbours = 3) \/ (neighbours = 2))

Cell_next(self, neighbours) ==
    Cell((neighbours = 3) \/ ((neighbours = 2) /\ self.alive))

\* Cell::to_char with the two symbols exchanged
Cell_to_char_swapped(self) == IF self.alive THEN EMPTY_CELL ELSE LIVE_CELL

Cell_to_char(self) == IF self.alive THEN LIVE_CELL ELSE EMPTY_CELL

\* the rules of the unit tests
cell_function_inversion(cell, n) == Cell(~cell.alive)

cell_function_neighbour(cell, n) == Cell(n = 8)

\* the call cell_func(&cell, n)
ApplyRule(f, cell, n) ==
    CASE f = "life" -> Cell_next(cell, n)
      [] f = "invert" -> cell_function_inversion(cell, n)
      [] f = "eight" -> cell_function_neighbour(cell, n)

\* ------------------------------------------------------------------------
\* lib.rs: Grid::neighbours
\* ------------------------------------------------------------------------

\* `b as u8`
AsU8(b) == IF b THEN 1 ELSE 0

\* does cells[r][i] index inside the vectors
InRange(c, r, i) == r < Len(c) /\ i < Len(c[r + 1])

nb_left(x, width) == IF x > 0 THEN x - 1 ELSE WrappingSub(width, 1)

\* the right neighbour clamped at the edge instead of wrapped
nb_right_clamped(x, width) ==
    IF x < WrappingSub(width, 1) THEN x + 1 ELSE WrappingSub(width, 1)

nb_right(x, width) == IF x < WrappingSub(width, 1) THEN x + 1 ELSE 0

nb_top(y, height) == IF y > 0 THEN y - 1 ELSE WrappingSub(height, 1)

nb_bottom(y, height) == IF y < WrappingSub(height, 1) THEN y + 1 ELSE 0

\* The outcome of self.neighbours(x, y) on the grid c: the panic that ends
\* it ("none" when it returns) and the count it returns.  `width - 1` and
\* `height - 1` are evaluated on every call, so a build that checks integer
\* overflow (overflow_checks, the default of a debug build) panics there
\* when the first row is empty; a build that does not wraps around.  The
\* eight reads are bounds-checked in every build.
neighbours(c, x, y, overflow_checks) ==
    LET height == Len(c)
        width  == Len(c[1])
        left   == nb_left(x, width)
        right  == nb_right(x, width)
        top    == nb_top(y, height)
        bottom == nb_bottom(y, height)
        reads  == << <<top, left>>,    <<top, x>>,    <<top, right>>,
                     <<y, left>>,                     <<y, right>>,
                     <<bottom, left>>, <<bottom, x>>, <<bottom, right>> >>
        at(k)  == AsU8(c[reads[k][1] + 1][reads[k][2] + 1].alive)
    IN  IF overflow_checks /\ (width < 1 \/ height < 1)
        THEN [panic |-> "overflow", n |-> 0]
        ELSE IF \E k \in 1 .. 8 : ~InRange(c, reads[k][1], reads[k][2])
        THEN [panic |-> "index", n |-> 0]
        ELSE [panic |-> "none",
              n |-> at(1) + at(2) + at(3) + at(4) + at(5) + at(6) + at(7) + at(8)]

\* ------------------------------------------------------------------------
\* lib.rs: Grid::random
\* ------------------------------------------------------------------------

\* (0..width).map(|_| Cell { alive: (rng.gen::<u32>() & 1) != 0 }).collect()
\* from position pos of the stream d of the random source
RECURSIVE random_row(_, _, _)
random_row(d, pos, width) ==
    IF width = 0 THEN [row |-> <<>>, pos |-> pos]
    ELSE LET rest == random_row(d, pos + 1, width - 1)
         IN  [row |-> <<Cell((d[pos + 1] % 2) # 0)>> \o rest.row,
              pos |-> rest.pos]

RECURSIVE random_rows(_, _, _, _)
random_rows(d, pos, width, height) ==
    IF height = 0 THEN [cells |-> <<>>, pos |-> pos]
    ELSE LET first == random_row(d, pos, width)
             rest  == random_rows(d, first.pos, width, height - 1)
         IN  [cells |-> <<first.row>> \o rest.cells, pos |-> rest.pos]

\* Grid::random with width and height exchanged
Grid_random_transposed(d, width, height) == random_rows(d, 0, height, width)

Grid_random(d, width, height) == random_rows(d, 0, width, height)

\* ------------------------------------------------------------------------
\* lib.rs: Display for Grid
\* ------------------------------------------------------------------------

\* Strings are sequences of one-character strings
CRLF == <<"\r", "\n">>

\* row.iter().map(Cell::to_char).collect::<String>()
row_to_string(row) == [i \in 1 .. Len(row) |-> Cell_to_char(row[i])]

RECURSIVE join_tail(_, _)
join_tail(strs, sep) ==
    IF strs = <<>> THEN <<>>
    ELSE sep \o Head(strs) \o join_tail(Tail(strs), sep)

\* a join that ends every line with the separator
join_terminated(strs, sep) ==
    IF strs = <<>> THEN <<>> ELSE Head(strs) \o join_tail(Tail(strs), sep) \o sep

\* [String]::join(sep)
join(strs, sep) ==
    IF strs = <<>> THEN <<>> ELSE Head(strs) \o join_tail(Tail(strs), sep)

Grid_fmt(c) == join([r \in 1 .. Len(c) |-> row_to_string(c[r])], CRLF)

\* ------------------------------------------------------------------------
\* The grids of the model
\* ------------------------------------------------------------------------

CellVals == {Cell(TRUE), Cell(FALSE)}

RowsOfWidth(w) == [1 .. w -> CellVals]

\* the grids of width w and height h
GridsOf(w, h) == [1 .. h -> RowsOfWidth(w)]

Dims == {d \in (0 .. MaxW) \X (0 .. MaxH) : d[1] * d[2] <= MaxCells}

\* rectangular grids with at least one cell
RectGrids ==
    UNION {GridsOf(d[1], d[2]) : d \in {e \in Dims : e[1] >= 1 /\ e[2] >= 1}}

RECURSIVE CellCount(_)
CellCount(c) == IF c = <<>> THEN 0 ELSE Len(Head(c)) + CellCount(Tail(c))

\* grids written down cell by cell, as the unit tests do: the rows may have
\* any lengths
BuiltGrids ==
    LET AnyRow == UNION {RowsOfWidth(w) : w \in 0 .. MaxW}
    IN  UNION {{c \in [1 .. h -> AnyRow] :
                    CellCount(c) >= 1 /\ CellCount(c) <= MaxBuiltCells}
               : h \in 1 .. MaxH}

IsRect(c) == \A r \in 1 .. Len(c) : Len(c[r]) = Len(c[1])

\* well formed: at least one row, at least one column, all rows as long
WellFormed(c) == Len(c) >= 1 /\ Len(c[1]) >= 1 /\ IsRect(c)

\* ------------------------------------------------------------------------
\* The library: construction, Grid::next on rayon's pool, Display
\* ------------------------------------------------------------------------

NoSlot == [set |-> FALSE, row |-> <<>>]

\* Grid::random(rng, width, height), d being what rng will return
Random(width, height, d) ==
    /\ pc = "none"
    /\ LET g == Grid_random(d, width, height)
       IN  /\ cells' = g.cells
           /\ draws' = g.pos
    /\ req' = <<width, height>>
    /\ pc' = "constructed"
    /\ UNCHANGED <<cell_func, rows, counts, slots,
                   next_grid, panic, text, main_vars, ahead>>

\* the driver constructs its grid from some random source
Construct ==
    /\ pc = "none"
    /\ \E d \in Dims : \E s \in [1 .. d[1] * d[2] -> DrawVals] :
            Random(d[1], d[2], s)

\* grid.next(f) is entered: par_iter().enumerate() makes one task per row
\* and collect() reserves one slot per row
CallNext(f) ==
    /\ pc \in {"constructed", "idle", "rendered"}
    /\ cell_func' = f
    /\ rows' = [y \in 1 .. Len(cells) |-> <<>>]
    /\ counts' = [y \in 1 .. Len(cells) |-> <<>>]
    /\ slots' = [y \in 1 .. Len(cells) |-> NoSlot]
    /\ text' = <<>>
    /\ pc' = "running"
    /\ UNCHANGED <<cells, req, draws, next_grid, panic,
                   main_vars, ahead>>

\* the grid the closure of a row task borrows: &self, whose cells are
\* deliberately updated in place here
self_cells_in_place ==
    [y \in 1 .. Len(cells) |-> IF slots[y].set THEN slots[y].row ELSE cells[y]]

self_cells == cells

\* row.iter() hands out one cell short
RowDone_short(produced, row) == Len(produced) + 1 >= Len(row)

\* row.iter() is exhausted
RowDone(produced, row) == Len(produced) = Len(row)

\* the slot of the collected vector that row task y fills, here the next
\* free one
SlotOf_completion(y) == Cardinality({i \in 1 .. Len(slots) : slots[i].set})

\* the slot of the collected vector that row task y fills
SlotOf(y) == y

\* a panic never leaves self.neighbours
TaskPanics_never(res) == FALSE

\* does the panic of self.neighbours unwind the row task
TaskPanics(res) == res.panic # "none"

\* One step of the task of row y on a worker of the pool: the next cell of
\* the row through cell_func, and the row into its slot once it is whole.
Task(y) ==
    /\ pc = "running"
    /\ y \in 0 .. Len(cells) - 1
    /\ ~slots[y + 1].set
    /\ \E overflow_checks \in BOOLEAN :
       LET row == cells[y + 1]
           x   == Len(rows[y + 1])
           res == IF RowDone(rows[y + 1], row)
                  THEN [panic |-> "none", n |-> 0]
                  ELSE neighbours(self_cells, x, y, overflow_checks)
       IN  IF TaskPanics(res)
           THEN /\ panic' = res.panic
                /\ pc' = "panicked"
                /\ UNCHANGED <<rows, counts, slots>>
           ELSE LET produced == IF RowDone(rows[y + 1], row)
                                THEN rows[y + 1]
                                ELSE Append(rows[y + 1],
                                            ApplyRule(cell_func, row[x + 1], res.n))
                IN  /\ rows' = [rows EXCEPT ![y + 1] = produced]
                    /\ counts' = IF RowDone(rows[y + 1], row) THEN counts
                                 ELSE [counts EXCEPT ![y + 1] = Append(@, res.n)]
                    /\ slots' = IF RowDone(produced, row)
                                THEN [slots EXCEPT ![SlotOf(y) + 1] =
                                         [set |-> TRUE, row |-> produced]]
                                ELSE slots
                    /\ UNCHANGED <<panic, pc>>
    /\ UNCHANGED <<cells, req, draws, cell_func, next_grid,
                   text, main_vars, ahead>>

\* every row task is done: Grid::next returns the collected Grid
Return ==
    /\ pc = "running"
    /\ \A y \in 1 .. Len(slots) : slots[y].set
    /\ next_grid' = [y \in 1 .. Len(slots) |-> slots[y].row]
    /\ pc' = "returned"
    /\ UNCHANGED <<cells, req, draws, cell_func, rows,
                   counts, slots, panic, text, main_vars>>

ClearCall ==
    /\ cell_func' = "none"
    /\ rows' = <<>>
    /\ counts' = <<>>
    /\ slots' = <<>>
    /\ next_grid' = <<>>

\* the driver replaces its grid by the successor
Advance ==
    /\ pc = "returned"
    /\ cells' = next_grid
    /\ pc' = "idle"
    /\ ClearCall
    /\ UNCHANGED <<req, draws, panic, text, main_vars, ahead>>

\* the driver drops the successor and keeps its grid (benches/bench.rs)
Discard ==
    /\ pc = "returned"
    /\ pc' = "idle"
    /\ ClearCall
    /\ UNCHANGED <<cells, req, draws, panic, text,
                   main_vars, ahead>>

\* format!("{}", grid)
Render ==
    /\ pc \in {"constructed", "idle"}
    /\ text' = Grid_fmt(cells)
    /\ pc' = "rendered"
    /\ UNCHANGED <<cells, req, draws, cell_func, rows,
                   counts, slots, next_grid, panic, main_vars, ahead>>

\* ------------------------------------------------------------------------
\* main.rs: the sequential evaluation
\* ------------------------------------------------------------------------

\* cell_update with the survival test dropped
cell_update_b2(cell, count) == (count = 3) \/ (count = 2)

\* cell_update(cell, neighbours)
cell_update(cell, count) == (count = 3) \/ ((count = 2) /\ cell)

\* grid_index_wrap that clamps below zero instead of wrapping
grid_index_wrap_clamped(i, len) == IF i < 0 THEN 0 ELSE AsUsize(i) % len

\* (i + len as isize) as usize % len
grid_index_wrap(i, len) == AsUsize(i + len) % len

\* grid_neighbours(grid, x, y); main.rs only calls it inside a grid from
\* grid_randomise, whose rows are all as long
grid_neighbours(g, x, y) ==
    LET left   == grid_index_wrap(x - 1, Len(g[1]))
        right  == grid_index_wrap(x + 1, Len(g[1]))
        top    == grid_index_wrap(y - 1, Len(g))
        bottom == grid_index_wrap(y + 1, Len(g))
    IN  AsU8(g[top + 1][left + 1]) +
        AsU8(g[top + 1][x + 1]) +
        AsU8(g[top + 1][right + 1]) +
        AsU8(g[y + 1][left + 1]) +
        AsU8(g[y + 1][right + 1]) +
        AsU8(g[bottom + 1][left + 1]) +
        AsU8(g[bottom + 1][x + 1]) +
        AsU8(g[bottom + 1][right + 1])

\* grid = grid_update(&grid) is entered
MainStart ==
    /\ m_pc = "idle"
    /\ m_pc' = "updating"
    /\ m_out' = <<>>
    /\ m_row' = <<>>
    /\ m_counts' = [y \in 1 .. Len(grid) |-> <<>>]
    /\ UNCHANGED <<grid, lib_vars, ahead>>

\* One step of grid_update: the next cell of the current row through
\* grid_update_row, and the row onto the collected rows once it is whole.
MainCell ==
    /\ m_pc = "updating"
    /\ Len(m_out) < Len(grid)
    /\ LET y    == Len(m_out)
           x    == Len(m_row)
           row  == grid[y + 1]
           full == x = Len(row)
           n    == grid_neighbours(grid, x, y)
           produced == IF full THEN m_row
                       ELSE Append(m_row, cell_update(row[x + 1], n))
       IN  /\ m_counts' = IF full THEN m_counts
                          ELSE [m_counts EXCEPT ![y + 1] = Append(@, n)]
           /\ IF Len(produced) = Len(row)
              THEN m_out' = Append(m_out, produced) /\ m_row' = <<>>
              ELSE m_row' = produced /\ UNCHANGED m_out
    /\ UNCHANGED <<grid, m_pc, lib_vars, ahead>>

\* grid_update returns and main assigns the result to grid
MainAssign ==
    /\ m_pc = "updating"
    /\ Len(m_out) = Len(grid)
    /\ grid' = m_out
    /\ m_pc' = "idle"
    /\ m_out' = <<>>
    /\ m_row' = <<>>
    /\ m_counts' = <<>>
    /\ UNCHANGED lib_vars

\* ------------------------------------------------------------------------
\* Specifications
\* ------------------------------------------------------------------------

LibIdle ==
    /\ pc = "none"
    /\ cells = <<>>
    /\ req = <<>>
    /\ draws = 0
    /\ cell_func = "none"
    /\ rows = <<>>
    /\ counts = <<>>
    /\ slots = <<>>
    /\ next_grid = <<>>
    /\ panic = "none"
    /\ text = <<>>

MainIdle ==
    /\ grid = <<>>
    /\ m_pc = "idle"
    /\ m_out = <<>>
    /\ m_row = <<>>
    /\ m_counts = <<>>

\* The library under a driver: a grid from Grid::random, then generations
\* and renderings.
Init ==
    /\ LibIdle
    /\ MainIdle
    /\ ahead = FALSE

Next ==
    \/ Construct
    \/ \E f \in Rules : CallNext(f)
    \/ \E y \in 0 .. MaxH - 1 : Task(y)
    \/ Return /\ UNCHANGED ahead
    \/ Advance
    \/ Discard
    \/ Render

Spec == Init /\ [][Next]_vars

\* the cell states of a library grid as main.rs holds them
Bools(c) == [y \in 1 .. Len(c) |-> [x \in 1 .. Len(c[y]) |-> c[y][x].alive]]

\* Both programs from the same cell states, generation by generation: once
\* Grid::next with Cell::next has returned a generation, main.rs computes
\* the same generation with grid_update.
InitEquiv ==
    /\ \E c \in RectGrids : cells = c /\ grid = Bools(c)
    /\ pc = "idle"
    /\ req = <<>>
    /\ draws = 0
    /\ cell_func = "none"
    /\ rows = <<>>
    /\ counts = <<>>
    /\ slots = <<>>
    /\ next_grid = <<>>
    /\ panic = "none"
    /\ text = <<>>
    /\ m_pc = "idle"
    /\ m_out = <<>>
    /\ m_row = <<>>
    /\ m_counts = <<>>
    /\ ahead = FALSE

NextEquiv ==
    \/ ~ahead /\ CallNext("life")
    \/ \E y \in 0 .. MaxH - 1 : Task(y)
    \/ Return /\ ahead' = TRUE
    \/ Advance
    \/ ahead /\ MainStart
    \/ MainCell
    \/ MainAssign /\ ahead' = FALSE

SpecEquiv == InitEquiv /\ [][NextEquiv]_vars

\* The library on a grid that was written down cell by cell.
InitBuilt ==
    /\ cells \in BuiltGrids
    /\ pc = "idle"
    /\ req = <<>>
    /\ draws = 0
    /\ cell_func = "none"
    /\ rows = <<>>
    /\ counts = <<>>
    /\ slots = <<>>
    /\ next_grid = <<>>
    /\ panic = "none"
    /\ text = <<>>
    /\ MainIdle
    /\ ahead = FALSE

NextBuilt ==
    \/ \E f \in Rules : CallNext(f)
    \/ \E y \in 0 .. MaxH - 1 : Task(y)
    \/ Return /\ UNCHANGED ahead
    \/ Advance
    \/ Discard

SpecBuilt == InitBuilt /\ [][NextBuilt]_vars

\* ------------------------------------------------------------------------
\* Properties
\* ------------------------------------------------------------------------

\* the pairs (state, neighbour count) of B3/S23 that give a live cell
AliveTable == {<<TRUE, 2>>, <<TRUE, 3>>, <<FALSE, 3>>}

\* the toroidal neighbourhood sum of the specification: the alive flags at
\* the eight offsets, coordinates taken modulo width and height
ModSum(c, x, y) ==
    LET h == Len(c)
        w == Len(c[1])
        at(dx, dy) == AsU8(c[((y + dy) % h) + 1][((x + dx) % w) + 1].alive)
    IN  at(-1, -1) + at(0, -1) + at(1, -1) +
        at(-1, 0)              + at(1, 0) +
        at(-1, 1)  + at(0, 1)  + at(1, 1)

\* the image of row y (1-based) of the current grid under the running rule
RowImage(y) ==
    [x \in 1 .. Len(cells[y]) |->
        ApplyRule(cell_func, cells[y][x],
                  neighbours(cells, x - 1, y - 1, FALSE).n)]

IsPrefix(p, q) == Len(p) <= Len(q) /\ \A i \in 1 .. Len(p) : p[i] = q[i]

\* the result main.rs has for cell x of row y of the running grid_update
MainResult(y, x) == IF y <= Len(m_out) THEN m_out[y][x] ELSE m_row[x]

\* C1: every application of the cell rule, Cell::next by a row task of the
\* library and cell_update by main.rs, is made with a neighbour count in
\* 0..8 and yields alive exactly for (alive, 2), (alive, 3) and (dead, 3).
C1_RuleTable ==
    /\ cell_func = "life" =>
          \A y \in DOMAIN rows : \A x \in DOMAIN rows[y] :
              /\ counts[y][x] \in 0 .. 8
              /\ rows[y][x].alive <=>
                    (<<cells[y][x].alive, counts[y][x]>> \in AliveTable)
    /\ \A y \in DOMAIN m_counts : \A x \in DOMAIN m_counts[y] :
          /\ m_counts[y][x] \in 0 .. 8
          /\ MainResult(y, x) <=> (<<grid[y][x], m_counts[y][x]>> \in AliveTable)

\* a live cell with two live neighbours survived in the library, and a dead
\* cell with three live neighbours came alive in main.rs
C1_Witness ==
    /\ pc = "returned"
    /\ cell_func = "life"
    /\ \E y \in DOMAIN rows : \E x \in DOMAIN rows[y] :
          cells[y][x].alive /\ counts[y][x] = 2 /\ rows[y][x].alive
    /\ \E y \in DOMAIN m_counts : \E x \in DOMAIN m_counts[y] :
          ~grid[y][x] /\ m_counts[y][x] = 3 /\ MainResult(y, x)

\* C2: the grid Grid::next returns from a well-formed grid holds, at every
\* position, the rule applied to the old cell and to the neighbour count of
\* that position in the old grid.
C2_NextFromPrior ==
    (pc = "returned" /\ WellFormed(cells)) =>
        /\ Len(next_grid) = Len(cells)
        /\ \A y \in 1 .. Len(cells) :
              /\ Len(next_grid[y]) = Len(cells[y])
              /\ \A x \in 1 .. Len(cells[y]) :
                    next_grid[y][x] =
                        ApplyRule(cell_func, cells[y][x],
                                  neighbours(cells, x - 1, y - 1, FALSE).n)

\* Grid::next returned the successor of a 3 x 3 grid under Cell::next, and
\* the successor differs from the grid
C2_Witness ==
    /\ pc = "returned"
    /\ cell_func = "life"
    /\ Len(cells) = 3
    /\ Len(cells[1]) = 3
    /\ next_grid # cells

\* C3: every neighbour count a row task computes in a well-formed grid is
\* the sum of the alive flags at the eight offsets taken modulo the width
\* and the height, and lies in 0..8.
C3_NeighboursToroidal ==
    (pc \in {"running", "returned"} /\ WellFormed(cells)) =>
        \A y \in DOMAIN counts : \A x \in DOMAIN counts[y] :
            /\ counts[y][x] = ModSum(cells, x - 1, y - 1)
            /\ counts[y][x] \in 0 .. 8

\* a count of 8 was computed in a grid one cell wide, where every wrapped
\* position is the cell itself
C3_Witness ==
    /\ pc = "running"
    /\ Len(cells) = 1
    /\ Len(cells[1]) = 1
    /\ counts = << <<8>> >>

\* C4: a grid made with width w >= 1 and height h >= 1 keeps h rows of w
\* cells through every generation, and so does every grid Grid::next returns.
C4_Dimensions ==
    (pc # "none" /\ req[1] >= 1 /\ req[2] >= 1) =>
        /\ Len(cells) = req[2]
        /\ \A y \in 1 .. Len(cells) : Len(cells[y]) = req[1]
        /\ pc = "returned" =>
              /\ Len(next_grid) = req[2]
              /\ \A y \in 1 .. Len(next_grid) : Len(next_grid[y]) = req[1]

\* a generation of a 3 x 2 grid was returned under the inversion rule
C4_Witness ==
    /\ pc = "returned"
    /\ req = <<3, 2>>
    /\ cell_func = "invert"
    /\ Len(next_grid) = 2

\* the newest grid the library holds: the one Grid::next has just returned,
\* or the current one
LibGrid == IF pc = "returned" THEN next_grid ELSE cells

\* C5: from the same cell states the library (Grid::next with Cell::next)
\* and main.rs (grid_update) hold the same grid after every generation.
C5_Strategies ==
    /\ (~ahead /\ m_pc = "idle") => grid = Bools(LibGrid)
    /\ (ahead /\ m_pc = "updating" /\ Len(m_out) = Len(grid)) =>
          m_out = Bools(LibGrid)

\* main.rs finished the generation of a 3 x 3 grid that the library had
\* advanced, and the generation changed the grid
C5_Witness ==
    /\ ahead
    /\ m_pc = "updating"
    /\ Len(grid) = 3
    /\ Len(grid[1]) = 3
    /\ Len(m_out) = 3
    /\ m_out # grid

\* what every schedule has in common: a row task has produced a prefix of
\* the image of its own row, and a filled slot holds the image of its row
RowsAreImages ==
    pc \in {"running", "returned"} =>
        \A y \in 1 .. Len(cells) :
            /\ IsPrefix(rows[y], RowImage(y))
            /\ slots[y].set => slots[y].row = RowImage(y)

\* a step of a running Grid::next leaves the grid alone and touches the
\* row, the counts and the slot of one task only
OneTaskWrites ==
    (pc = "running" /\ pc' = "running") =>
        /\ cells' = cells
        /\ \E y \in 1 .. Len(cells) : \A z \in 1 .. Len(cells) :
              z # y => /\ rows'[z] = rows[z]
                       /\ counts'[z] = counts[z]
                       /\ slots'[z] = slots[z]

\* C6: in every interleaving of the row tasks each task reads the prior
\* grid only and writes its own row and slot only, and slot i always
\* receives the image of row i.
C6_Schedules == [](RowsAreImages) /\ [][OneTaskWrites]_vars

\* the task of the last row of a 3 x 3 grid has filled its slot while the
\* task of the first row has not produced a cell yet
C6_Witness ==
    /\ pc = "running"
    /\ Len(cells) = 3
    /\ Len(cells[1]) = 3
    /\ slots[3].set
    /\ rows[1] = <<>>
    /\ Len(rows[2]) = 1
    /\ slots[3].row # cells[3]

\* C7: the rendering of a well-formed grid of height h and width w is h
\* lines of w symbols, 'O' for alive and ' ' for dead, with CR LF between
\* consecutive lines and nothing after the last: h*w + 2*(h-1) characters.
C7_Rendering ==
    (pc = "rendered" /\ WellFormed(cells)) =>
        LET h == Len(cells)
            w == Len(cells[1])
        IN  /\ Len(text) = h * w + 2 * (h - 1)
            /\ \A r \in 1 .. h :
                  /\ \A c \in 1 .. w :
                        text[(r - 1) * (w + 2) + c] =
                            (IF cells[r][c].alive THEN "O" ELSE " ")
                  /\ r < h => /\ text[(r - 1) * (w + 2) + w + 1] = "\r"
                              /\ text[(r - 1) * (w + 2) + w + 2] = "\n"

\* the grid of the unit test was rendered
C7_Witness ==
    /\ pc = "rendered"
    /\ text = <<"O", "O", "O", "\r", "\n", "O", " ", "O", "\r", "\n",
                "O", "O", "O">>

\* C8: Grid::random with width w > 0 and height h > 0 returns h rows of w
\* cells and takes w * h values from the random source.
C8_RandomShape ==
    (pc = "constructed" /\ req[1] > 0 /\ req[2] > 0) =>
        /\ Len(cells) = req[2]
        /\ \A y \in 1 .. Len(cells) : Len(cells[y]) = req[1]
        /\ draws = req[1] * req[2]

\* a grid of width 3 and height 2 was made
C8_Witness ==
    /\ pc = "constructed"
    /\ req = <<3, 2>>
    /\ draws = 6
    /\ cells[2][3].alive

\* C9: Grid::random fails exactly when the width or the height is 0, and a
\* grid without rows or with empty rows is never handed on.
C9_FailsOnZero ==
    pc # "none" =>
        /\ (req[1] = 0 \/ req[2] = 0) <=> pc = "failed"
        /\ pc # "failed" => WellFormed(cells)

\* C10 as stated: Grid::next on a grid with a cell and rows of unequal
\* lengths never returns, and the panic that ends it is an index out of
\* range.
C10_IndexPanicOnly ==
    ~IsRect(cells) =>
        /\ pc # "returned"
        /\ pc = "panicked" => panic = "index"

\* C10, amended: Grid::next on a grid with a cell and rows of unequal
\* lengths never returns: no schedule fills every slot, and the panic that
\* ends it is an index out of range or, when the first row is empty and the
\* build checks integer overflow, the subtraction width - 1.
C10_RaggedPanics ==
    ~IsRect(cells) =>
        /\ pc # "returned"
        /\ pc = "running" => \E y \in 1 .. Len(slots) : ~slots[y].set
        /\ pc = "panicked" =>
              \/ panic = "index"
              \/ panic = "overflow" /\ Len(cells[1]) = 0

\* Grid::next panicked on an index in a grid whose second row is longer
\* than the first, after the task of the first row had filled its slot
C10_Witness ==
    /\ pc = "panicked"
    /\ panic = "index"
    /\ Len(cells) = 2
    /\ Len(cells[1]) = 1
    /\ Len(cells[2]) = 2
    /\ slots[1].set

====
